---- MODULE Spec2Model ----
(***************************************************************************)
(* Model of test-rules-api.py: a linear script that reads DEV_BEARER,      *)
(* issues one GET against the Rules Hub API, validates the JSON payload,   *)
(* prints a report and exits with 0 or 1.                                  *)
(*                                                                         *)
(* JSON values are tagged records [t, v].  Strings are sequences of        *)
(* one-character strings so that the substring test of line 37/58 is       *)
(* computed, not assumed.  A Python dict is a function whose DOMAIN is the *)
(* set of keys present, so "field absent" and "field null" differ as they  *)
(* do in the script.  The standard output is the sequence `out` of printed *)
(* lines; a line is the format string used (fmt) and the values            *)
(* interpolated into it (args).                                            *)
(*                                                                         *)
(* Inputs explored: DEV_BEARER unset, empty or set; a transport failure or *)
(* a response with a status of StatusCodes and a body of Bodies.  Bodies   *)
(* holds text that is not JSON, JSON documents that are not objects, and   *)
(* objects in which success, data, pagination, total and rules are each    *)
(* absent, null or of the documented type; rules lists hold records with   *)
(* name, expression, enabled and severity absent, null or present.  The    *)
(* script does not pin the version of requests, so response.json() may     *)
(* raise either of the two classes the library has used (JsonErrors).      *)
(***************************************************************************)
EXTENDS Integers, Sequences, FiniteSets, TLC

VARIABLES environ, pc, token, headers, requests, response, data, total,
          rules, template_rules, disabled_rules, idx, exc, out, exitCode

vars == <<environ, pc, token, headers, requests, response, data, total,
          rules, template_rules, disabled_rules, idx, exc, out, exitCode>>

(***************************************************************************)
(* Bounds of the explored inputs.                                          *)
(***************************************************************************)
\* longest rules list built from RulePool (must exceed PreviewLimit)
MaxRules == 6
\* longest expression string enumerated for a single rule
MaxExprLen == 2

(***************************************************************************)
(* JSON / Python values.                                                   *)
(***************************************************************************)
JNull == [t |-> "null", v |-> 0]

JBool(b) == [t |-> "bool", v |-> b]

JNum(n) == [t |-> "num", v |-> n]

JStr(s) == [t |-> "str", v |-> s]

JList(s) == [t |-> "list", v |-> s]

JObj(f) == [t |-> "obj", v |-> f]

\* the value of a name that has not been assigned yet
Unbound == [t |-> "unbound", v |-> 0]

\* a response body that is not a JSON document
Garbage == [t |-> "garbage", v |-> 0]

EmptyDict == [k \in {} |-> JNull]

\* a presence test in place of truthiness: `token is not None`
TruthyNotNone(x) ==
    CASE x.t = "null" -> FALSE
      [] x.t = "bool" -> x.v
      [] x.t = "num"  -> x.v # 0
      [] OTHER        -> TRUE

\* Python truthiness, as used by `not token`, `not data.get('success')`
\* and `not r.get('enabled')`
Truthy(x) ==
    CASE x.t = "null" -> FALSE
      [] x.t = "bool" -> x.v
      [] x.t = "num"  -> x.v # 0
      [] x.t = "str"  -> Len(x.v) > 0
      [] x.t = "list" -> Len(x.v) > 0
      [] x.t = "obj"  -> DOMAIN x.v # {}
      [] OTHER        -> FALSE

\* d.get(k, dflt) on a dict d
DictGet(d, k, dflt) == IF k \in DOMAIN d.v THEN d.v[k] ELSE dflt

\* the exception class raised by x[k] for a string key k, "" when none
SubscriptError(x, k) ==
    IF x.t = "obj"
    THEN IF k \in DOMAIN x.v THEN "" ELSE "KeyError"
    ELSE "TypeError"

\* hay.startswith(needle) in place of needle in hay
IsPrefix(needle, hay) ==
    Len(needle) <= Len(hay) /\ SubSeq(hay, 1, Len(needle)) = needle

\* needle in hay, for two Python strings
IsSubstring(needle, hay) ==
    \E i \in 0..(Len(hay) - Len(needle)) :
        SubSeq(hay, i + 1, i + Len(needle)) = needle

\* the literal '${' of lines 37 and 58
Placeholder == <<"$", "{">>

\* r.get('expression', '') for a rule record r
ExpressionOf(r) == DictGet(r, "expression", JStr(<<>>))

\* '${' in r.get('expression', '') raises TypeError unless the value
\* is a string (null and numbers are not containers)
ContainsRaises(r) == r.t # "obj" \/ ExpressionOf(r).t # "str"

\* '${' in r.get('expression', '')
IsTemplate(r) == IsSubstring(Placeholder, ExpressionOf(r).v)

\* only a missing field counts: r.get('enabled') is None
IsDisabledMissing(r) == DictGet(r, "enabled", JNull).t = "null"

\* not r.get('enabled')
IsDisabled(r) == ~Truthy(DictGet(r, "enabled", JNull))

\* rules[:5]
PreviewLimit == 5

\* rules[1:5] in place of rules[:5]
SliceFromSecond(s, n) == SubSeq(s, 2, IF Len(s) < n THEN Len(s) ELSE n)

Slice(s, n) == SubSeq(s, 1, IF Len(s) < n THEN Len(s) ELSE n)

(***************************************************************************)
(* Exceptions.                                                             *)
(***************************************************************************)
NoExc == [cls |-> "none", msg |-> "", code |-> 0]

Exc(c, m) == [cls |-> c, msg |-> m, code |-> 0]

\* sys.exit(n) raises SystemExit(n)
SystemExit(n) == [cls |-> "SystemExit", msg |-> "", code |-> n]

\* classes derived from requests.exceptions.RequestException
RequestExceptionClasses ==
    {"ConnectionError", "Timeout", "HTTPError", "RequestsJSONDecodeError"}

IsRequestException(e) == e.cls \in RequestExceptionClasses

\* a bare `except:` in place of `except Exception`
IsBaseException(e) == e.cls # "none"

\* classes derived from Exception; SystemExit derives from BaseException only
IsException(e) == e.cls \notin {"none", "SystemExit"}

(***************************************************************************)
(* Printed lines.                                                          *)
(***************************************************************************)
Line(f, a) == [fmt |-> f, args |-> a]

Sep == Line("====", <<>>)

Blank == Line("", <<>>)

(***************************************************************************)
(* Inputs: the process environment and what the server may answer.         *)
(***************************************************************************)
\* all sequences over S of length at most n
Lists(S, n) == UNION {[1..k -> S] : k \in 0..n}

\* a key that is either absent or bound to one of the values of S
Fields(k, S) == {EmptyDict} \cup {(k :> x) : x \in S}

Merge(A, B) == {a @@ b : a \in A, b \in B}

\* DEV_BEARER unset, set to the empty string, set to a token
Environs ==
    {EmptyDict, ("DEV_BEARER" :> <<>>), ("DEV_BEARER" :> <<"t", "k">>)}

Chars == {"$", "{", "x"}

Strings == Lists(Chars, MaxExprLen)

\* a template rule, enabled, with a severity
RuleA ==
    JObj([name |-> JStr(<<"a">>), expression |-> JStr(<<"x", "$", "{", "x">>),
          enabled |-> JBool(TRUE), severity |-> JStr(<<"h">>)])

\* a disabled rule without expression or severity
RuleB == JObj([name |-> JStr(<<"b">>), enabled |-> JBool(FALSE)])

\* an enabled executable rule without a name
RuleC == JObj([expression |-> JStr(<<"x">>), enabled |-> JBool(TRUE)])

\* a rule without the enabled field
RuleD == JObj([name |-> JStr(<<"d">>), expression |-> JStr(<<"$", "x", "{">>)])

\* a disabled rule without a name
RuleE == JObj([expression |-> JStr(<<>>), enabled |-> JBool(FALSE)])

RulePool == {RuleA, RuleB, RuleC, RuleD, RuleE}

\* single records with every combination of present, absent, null and
\* string fields, and one element that is not a record
VariedPool ==
    {JNull} \cup
    {JObj(f) : f \in
        Merge(Merge(Fields("name", {JStr(<<"n">>)}),
                    Fields("expression",
                           {JNull} \cup {JStr(s) : s \in Strings})),
              Merge(Fields("enabled",
                           {JBool(TRUE), JBool(FALSE), JNull, JNum(0), JNum(1)}),
                    Fields("severity", {JStr(<<"h">>)})))}

RuleLists == Lists(RulePool, MaxRules) \cup {<<r>> : r \in VariedPool}

\* payloads with missing, null or ill-shaped parts
SmallData ==
    {JNull} \cup
    {JObj(f) : f \in
        Merge(Fields("pagination",
                     {JNull, JObj(EmptyDict), JObj("total" :> JNull),
                      JObj("total" :> JNum(0)), JObj("total" :> JNum(42))}),
              Fields("rules", {JNull, JList(<<>>), JList(<<RuleA>>)}))}

SuccessValues == {JBool(TRUE), JBool(FALSE), JNull, JNum(0), JNum(1)}

\* the payload of the documented shape around a rules list
Payload(rs) ==
    JObj([success |-> JBool(TRUE),
          data |-> JObj([pagination |-> JObj([total |-> JNum(42)]),
                         rules |-> JList(rs)])])

Bodies ==
    {Garbage, JNull, JList(<<>>)}
    \cup {JObj(f) : f \in Merge(Fields("success", SuccessValues),
                                Fields("data", SmallData))}
    \cup {Payload(rs) : rs \in RuleLists}

StatusCodes == {200, 304, 404, 500}

\* connection refused, timeout, DNS failure
TransportFailures ==
    {Exc("ConnectionError", "refused"), Exc("Timeout", "timeout"),
     Exc("ConnectionError", "dns")}

\* what response.json() raises on a body that is not JSON:
\* requests.exceptions.JSONDecodeError (a RequestException) since requests
\* 2.27, json.JSONDecodeError (a ValueError) before
JsonErrors ==
    {Exc("RequestsJSONDecodeError", "json"), Exc("ValueError", "json")}

(***************************************************************************)
(* The script, one action per statement group.                             *)
(***************************************************************************)
Init ==
    /\ environ \in Environs
    /\ pc = "L8"
    /\ token = Unbound
    /\ headers = Unbound
    /\ requests = <<>>
    /\ response = Unbound
    /\ data = Unbound
    /\ total = Unbound
    /\ rules = Unbound
    /\ template_rules = <<>>
    /\ disabled_rules = <<>>
    /\ idx = 0
    /\ exc = NoExc
    /\ out = <<>>
    /\ exitCode = -1

\* raise e inside the try block
Raise(e) == pc' = "except" /\ exc' = e

\* line 8: token = os.environ.get('DEV_BEARER')
ReadToken ==
    /\ pc = "L8"
    /\ token' = IF "DEV_BEARER" \in DOMAIN environ
                THEN JStr(environ["DEV_BEARER"]) ELSE JNull
    /\ pc' = "L9"
    /\ UNCHANGED <<environ, headers, requests, response, data, total, rules,
                   template_rules, disabled_rules, idx, exc, out, exitCode>>

\* lines 9-11: if not token: print(...); sys.exit(1)
ConfigError ==
    /\ pc = "L9"
    /\ ~Truthy(token)
    /\ out' = Append(out, Line("ERROR: DEV_BEARER environment variable not set", <<>>))
    /\ exitCode' = 1
    /\ pc' = "done"
    /\ UNCHANGED <<environ, token, headers, requests, response, data, total,
                   rules, template_rules, disabled_rules, idx, exc>>

\* lines 13-16: headers = {...}
BuildHeaders ==
    /\ pc = "L9"
    /\ Truthy(token)
    /\ headers' = [Authorization |-> <<"Bearer ">> \o token.v,
                   ContentType |-> <<"application/json">>]
    /\ pc' = "L19"
    /\ UNCHANGED <<environ, token, requests, response, data, total, rules,
                   template_rules, disabled_rules, idx, exc, out, exitCode>>

\* lines 19-22: the opening banner
PrintBanner ==
    /\ pc = "L19"
    /\ out' = out \o <<Sep, Line("Rules Hub API Verification", <<>>), Sep, Blank>>
    /\ pc' = "L25"
    /\ UNCHANGED <<environ, token, headers, requests, response, data, total,
                   rules, template_rules, disabled_rules, idx, exc, exitCode>>

\* line 25: response = requests.get(url, headers=headers)
Get ==
    /\ pc = "L25"
    /\ requests' = Append(requests,
                          [method |-> "GET",
                           url |-> "http://localhost:3000/api/quality/rules?enabled=true",
                           headers |-> headers])
    /\ \/ \E e \in TransportFailures :
            /\ Raise(e)
            /\ UNCHANGED response
       \/ \E st \in StatusCodes, b \in Bodies :
            /\ response' = [status |-> st, body |-> b]
            /\ pc' = "L26"
            /\ UNCHANGED exc
    /\ UNCHANGED <<environ, token, headers, data, total, rules,
                   template_rules, disabled_rules, idx, out, exitCode>>

\* only 5xx treated as an error status
IsServerError(st) == 500 <= st /\ st < 600

\* response.raise_for_status() raises HTTPError for 4xx and 5xx
IsErrorStatus(st) == 400 <= st /\ st < 600

\* line 26: response.raise_for_status()
RaiseForStatus ==
    /\ pc = "L26"
    /\ IF IsErrorStatus(response.status)
       THEN Raise(Exc("HTTPError", ToString(response.status)))
       ELSE pc' = "L27" /\ UNCHANGED exc
    /\ UNCHANGED <<environ, token, headers, requests, response, data, total,
                   rules, template_rules, disabled_rules, idx, out, exitCode>>

\* line 27: data = response.json()
ParseJson ==
    /\ pc = "L27"
    /\ IF response.body = Garbage
       THEN /\ \E e \in JsonErrors : Raise(e)
            /\ UNCHANGED data
       ELSE /\ data' = response.body
            /\ pc' = "L29"
            /\ UNCHANGED exc
    /\ UNCHANGED <<environ, token, headers, requests, response, total, rules,
                   template_rules, disabled_rules, idx, out, exitCode>>

\* lines 29-31: if not data.get('success'): print(...); sys.exit(1)
CheckSuccess ==
    /\ pc = "L29"
    /\ IF data.t # "obj"
       THEN Raise(Exc("AttributeError", "get")) /\ UNCHANGED out
       ELSE IF ~Truthy(DictGet(data, "success", JNull))
            THEN /\ out' = Append(out, Line("ERROR: API returned success=false", <<>>))
                 /\ Raise(SystemExit(1))
            ELSE pc' = "L33" /\ UNCHANGED <<exc, out>>
    /\ UNCHANGED <<environ, token, headers, requests, response, data, total,
                   rules, template_rules, disabled_rules, idx, exitCode>>


\* the exception raised by data['data']['pagination']['total'], NoExc if none
TotalError(d) ==
    IF SubscriptError(d, "data") # ""
    THEN Exc(SubscriptError(d, "data"), "data")
    ELSE IF SubscriptError(d.v["data"], "pagination") # ""
    THEN Exc(SubscriptError(d.v["data"], "pagination"), "pagination")
    ELSE IF SubscriptError(d.v["data"].v["pagination"], "total") # ""
    THEN Exc(SubscriptError(d.v["data"].v["pagination"], "total"), "total")
    ELSE NoExc

\* line 33: total = data['data']['pagination']['total']
ReadTotal ==
    /\ pc = "L33"
    /\ IF TotalError(data) # NoExc
       THEN Raise(TotalError(data)) /\ UNCHANGED total
       ELSE /\ total' = data.v["data"].v["pagination"].v["total"]
            /\ pc' = "L34"
            /\ UNCHANGED exc
    /\ UNCHANGED <<environ, token, headers, requests, response, data, rules,
                   template_rules, disabled_rules, idx, out, exitCode>>

\* line 34: rules = data['data']['rules']
ReadRules ==
    /\ pc = "L34"
    /\ IF SubscriptError(data.v["data"], "rules") # ""
       THEN /\ Raise(Exc(SubscriptError(data.v["data"], "rules"), "rules"))
            /\ UNCHANGED rules
       ELSE /\ rules' = data.v["data"].v["rules"]
            /\ pc' = "L37"
            /\ UNCHANGED exc
    /\ UNCHANGED <<environ, token, headers, requests, response, data, total,
                   template_rules, disabled_rules, idx, out, exitCode>>

\* the exception raised by the comprehension of line 37, NoExc if none:
\* null is not iterable, an element that is no dict has no get(), and
\* '${' in x raises for an x that is no string
TemplateError(rs) ==
    IF rs.t # "list" THEN Exc("TypeError", "not iterable")
    ELSE IF \E i \in 1..Len(rs.v) : ContainsRaises(rs.v[i])
    THEN LET i == CHOOSE j \in 1..Len(rs.v) :
                      /\ ContainsRaises(rs.v[j])
                      /\ \A k \in 1..(j - 1) : ~ContainsRaises(rs.v[k])
         IN  IF rs.v[i].t # "obj" THEN Exc("AttributeError", "get")
             ELSE Exc("TypeError", "not a container")
    ELSE NoExc

\* lines 37-38: template_rules = [r for r in rules if '${' in ...]
TemplateRules ==
    /\ pc = "L37"
    /\ IF TemplateError(rules) # NoExc
       THEN Raise(TemplateError(rules)) /\ UNCHANGED template_rules
       ELSE /\ template_rules' = SelectSeq(rules.v, IsTemplate)
            /\ pc' = "L41"
            /\ UNCHANGED exc
    /\ UNCHANGED <<environ, token, headers, requests, response, data, total,
                   rules, disabled_rules, idx, out, exitCode>>

\* lines 41-42: disabled_rules = [r for r in rules if not r.get('enabled')]
DisabledRules ==
    /\ pc = "L41"
    /\ disabled_rules' = SelectSeq(rules.v, IsDisabled)
    /\ pc' = "L44"
    /\ UNCHANGED <<environ, token, headers, requests, response, data, total,
                   rules, template_rules, idx, exc, out, exitCode>>

\* lines 44-48: the four summary lines and a blank line
PrintSummary ==
    /\ pc = "L44"
    /\ out' = out \o
              <<Line("Total enabled rules: {total}", <<total>>),
                Line("Rules fetched: {len(rules)}", <<JNum(Len(rules.v))>>),
                Line("Template rules: {template_count}",
                     <<JNum(Len(template_rules))>>),
                Line("Disabled rules: {disabled_count} (should be 0)",
                     <<JNum(Len(disabled_rules))>>),
                Blank>>
    /\ pc' = "L50"
    /\ UNCHANGED <<environ, token, headers, requests, response, data, total,
                   rules, template_rules, disabled_rules, idx, exc, exitCode>>

\* the warning printed without the test on disabled_count
WarningHeaderAlways ==
    /\ pc = "L50"
    /\ out' = Append(out,
          Line("WARNING: Found disabled rules in enabled=true response!", <<>>))
    /\ idx' = 1
    /\ pc' = "L52"
    /\ UNCHANGED <<environ, token, headers, requests, response, data, total,
                   rules, template_rules, disabled_rules, exc, exitCode>>

\* lines 50-51: if disabled_count > 0: print("WARNING: ...")
WarningHeader ==
    /\ pc = "L50"
    /\ IF Len(disabled_rules) > 0
       THEN /\ out' = Append(out,
                  Line("WARNING: Found disabled rules in enabled=true response!", <<>>))
            /\ idx' = 1
            /\ pc' = "L52"
       ELSE /\ pc' = "L56"
            /\ UNCHANGED <<out, idx>>
    /\ UNCHANGED <<environ, token, headers, requests, response, data, total,
                   rules, template_rules, disabled_rules, exc, exitCode>>

\* the exception raised by r[k], NoExc if none
FieldError(r, k) ==
    IF SubscriptError(r, k) # "" THEN Exc(SubscriptError(r, k), k) ELSE NoExc

\* lines 52-53: one iteration of the loop over disabled_rules; the f-string
\* evaluates r['name'] then r['enabled'] before anything is printed
WarningItem ==
    /\ pc = "L52"
    /\ idx <= Len(disabled_rules)
    /\ LET r == disabled_rules[idx] IN
       IF FieldError(r, "name") # NoExc
       THEN Raise(FieldError(r, "name")) /\ UNCHANGED <<out, idx>>
       ELSE IF FieldError(r, "enabled") # NoExc
       THEN Raise(FieldError(r, "enabled")) /\ UNCHANGED <<out, idx>>
       ELSE /\ out' = Append(out, Line("  - {name} (enabled={enabled})",
                                       <<r.v["name"], r.v["enabled"]>>))
            /\ idx' = idx + 1
            /\ UNCHANGED <<pc, exc>>
    /\ UNCHANGED <<environ, token, headers, requests, response, data, total,
                   rules, template_rules, disabled_rules, exitCode>>

\* line 54: the blank line that ends the warning block
WarningEnd ==
    /\ pc = "L52"
    /\ idx > Len(disabled_rules)
    /\ out' = Append(out, Blank)
    /\ pc' = "L56"
    /\ UNCHANGED <<environ, token, headers, requests, response, data, total,
                   rules, template_rules, disabled_rules, idx, exc, exitCode>>

\* line 56: print("First 5 rules:")
PreviewHeader ==
    /\ pc = "L56"
    /\ out' = Append(out, Line("First 5 rules:", <<>>))
    /\ idx' = 1
    /\ pc' = "L57"
    /\ UNCHANGED <<environ, token, headers, requests, response, data, total,
                   rules, template_rules, disabled_rules, exc, exitCode>>

\* "Template" if is_template else "Executable"
RuleType(r) == IF IsTemplate(r) THEN "Template" ELSE "Executable"

\* the name read with r.get('name', '?'), which never raises
PreviewNameDefault ==
    /\ pc = "L57"
    /\ idx <= Len(Slice(rules.v, PreviewLimit))
    /\ LET r == Slice(rules.v, PreviewLimit)[idx] IN
       /\ out' = Append(out, Line("  {i}. {name}",
                                  <<JNum(idx), DictGet(r, "name", JStr(<<"?">>))>>))
       /\ pc' = "L61"
       /\ UNCHANGED exc
    /\ UNCHANGED <<environ, token, headers, requests, response, data, total,
                   rules, template_rules, disabled_rules, idx, exitCode>>

\* lines 57-60: for i, r in enumerate(rules[:5], 1): ... print(f"  {i}. {r['name']}")
PreviewName ==
    /\ pc = "L57"
    /\ idx <= Len(Slice(rules.v, PreviewLimit))
    /\ LET r == Slice(rules.v, PreviewLimit)[idx] IN
       IF FieldError(r, "name") # NoExc
       THEN Raise(FieldError(r, "name")) /\ UNCHANGED out
       ELSE /\ out' = Append(out, Line("  {i}. {name}", <<JNum(idx), r.v["name"]>>))
            /\ pc' = "L61"
            /\ UNCHANGED exc
    /\ UNCHANGED <<environ, token, headers, requests, response, data, total,
                   rules, template_rules, disabled_rules, idx, exitCode>>

\* line 61: print(f"     Type: {rule_type} | Enabled: ... | Severity: ...")
PreviewType ==
    /\ pc = "L61"
    /\ LET r == Slice(rules.v, PreviewLimit)[idx] IN
       IF FieldError(r, "enabled") # NoExc
       THEN Raise(FieldError(r, "enabled")) /\ UNCHANGED <<out, idx>>
       ELSE /\ out' = Append(out,
                  Line("     Type: {rule_type} | Enabled: {enabled} | Severity: {severity}",
                       <<JStr(<<RuleType(r)>>), r.v["enabled"],
                         DictGet(r, "severity", JStr(<<"N/A">>))>>))
            /\ idx' = idx + 1
            /\ pc' = "L57"
            /\ UNCHANGED exc
    /\ UNCHANGED <<environ, token, headers, requests, response, data, total,
                   rules, template_rules, disabled_rules, exitCode>>

\* lines 63-72: the closing banner and the fixed status block
PrintClosing ==
    /\ pc = "L57"
    /\ idx > Len(Slice(rules.v, PreviewLimit))
    /\ out' = out \o
              <<Blank, Sep, Line("API Verification Complete!", <<>>), Sep, Blank,
                Line("Frontend Status:", <<>>),
                Line("  - ModernRulesHubFixed.tsx: Compiled successfully", <<>>),
                Line("  - Page loads: HTTP 200 OK", <<>>),
                Line("  - API filtering: enabled=true working correctly", <<>>),
                Blank>>
    /\ pc' = "end"
    /\ UNCHANGED <<environ, token, headers, requests, response, data, total,
                   rules, template_rules, disabled_rules, idx, exc, exitCode>>

\* the script runs off its last line: exit status 0
Finish ==
    /\ pc = "end"
    /\ exitCode' = 0
    /\ pc' = "done"
    /\ UNCHANGED <<environ, token, headers, requests, response, data, total,
                   rules, template_rules, disabled_rules, idx, exc, out>>

\* the request tried again after a failure
HandleRequestExceptionRetry ==
    /\ pc = "except"
    /\ IsRequestException(exc)
    /\ out' = Append(out, Line("ERROR: Failed to fetch rules: {e}", <<JStr(<<exc.msg>>)>>))
    /\ exc' = NoExc
    /\ pc' = "L25"
    /\ UNCHANGED <<environ, token, headers, requests, response, data, total,
                   rules, template_rules, disabled_rules, idx, exitCode>>

\* lines 74-76: except requests.exceptions.RequestException as e
HandleRequestException ==
    /\ pc = "except"
    /\ IsRequestException(exc)
    /\ out' = Append(out, Line("ERROR: Failed to fetch rules: {e}", <<JStr(<<exc.msg>>)>>))
    /\ exitCode' = 1
    /\ pc' = "done"
    /\ UNCHANGED <<environ, token, headers, requests, response, data, total,
                   rules, template_rules, disabled_rules, idx, exc>>

\* the handler exits without printing the diagnostic
HandleExceptionSilent ==
    /\ pc = "except"
    /\ ~IsRequestException(exc)
    /\ IsException(exc)
    /\ exitCode' = 1
    /\ pc' = "done"
    /\ UNCHANGED <<environ, token, headers, requests, response, data, total,
                   rules, template_rules, disabled_rules, idx, exc, out>>

\* lines 77-79: except Exception as e
HandleException ==
    /\ pc = "except"
    /\ ~IsRequestException(exc)
    /\ IsException(exc)
    /\ out' = Append(out, Line("ERROR: {e}", <<JStr(<<exc.msg>>)>>))
    /\ exitCode' = 1
    /\ pc' = "done"
    /\ UNCHANGED <<environ, token, headers, requests, response, data, total,
                   rules, template_rules, disabled_rules, idx, exc>>

\* SystemExit matches neither except clause: the interpreter exits with
\* the code given to sys.exit
PropagateSystemExit ==
    /\ pc = "except"
    /\ ~IsRequestException(exc)
    /\ ~IsException(exc)
    /\ exitCode' = exc.code
    /\ pc' = "done"
    /\ UNCHANGED <<environ, token, headers, requests, response, data, total,
                   rules, template_rules, disabled_rules, idx, exc, out>>

Next ==
    \/ ReadToken
    \/ ConfigError
    \/ BuildHeaders
    \/ PrintBanner
    \/ Get
    \/ RaiseForStatus
    \/ ParseJson
    \/ CheckSuccess
    \/ ReadTotal
    \/ ReadRules
    \/ TemplateRules
    \/ DisabledRules
    \/ PrintSummary
    \/ WarningHeader
    \/ WarningItem
    \/ WarningEnd
    \/ PreviewHeader
    \/ PreviewName
    \/ PreviewType
    \/ PrintClosing
    \/ Finish
    \/ HandleRequestException
    \/ HandleException
    \/ PropagateSystemExit

Spec == Init /\ [][Next]_vars

TypeOK ==
    /\ pc \in {"L8", "L9", "L19", "L25", "L26", "L27", "L29", "L33", "L34",
               "L37", "L41", "L44", "L50", "L52", "L56", "L57", "L61",
               "end", "except", "done"}
    /\ exitCode \in {-1, 0, 1}
    /\ (pc = "done") = (exitCode # -1)

(***************************************************************************)
(* Vocabulary of the properties.                                           *)
(***************************************************************************)
FmtConfig == "ERROR: DEV_BEARER environment variable not set"

FmtLogic == "ERROR: API returned success=false"

FmtFetch == "ERROR: Failed to fetch rules: {e}"

FmtGeneric == "ERROR: {e}"

FmtTotal == "Total enabled rules: {total}"

FmtFetched == "Rules fetched: {len(rules)}"

FmtTemplates == "Template rules: {template_count}"

FmtDisabled == "Disabled rules: {disabled_count} (should be 0)"

FmtWarning == "WARNING: Found disabled rules in enabled=true response!"

FmtWarningItem == "  - {name} (enabled={enabled})"

FmtPreview == "First 5 rules:"

FmtPreviewName == "  {i}. {name}"

FmtPreviewType == "     Type: {rule_type} | Enabled: {enabled} | Severity: {severity}"

FmtComplete == "API Verification Complete!"

\* the lines that begin with "ERROR:"
ErrorFormats == {FmtConfig, FmtLogic, FmtFetch, FmtGeneric}

SummaryFormats == {FmtTotal, FmtFetched, FmtTemplates, FmtDisabled}

BannerLines == <<Sep, Line("Rules Hub API Verification", <<>>), Sep, Blank>>

ClosingFormats ==
    <<"", "====", FmtComplete, "====", "", "Frontend Status:",
      "  - ModernRulesHubFixed.tsx: Compiled successfully",
      "  - Page loads: HTTP 200 OK",
      "  - API filtering: enabled=true working correctly", "">>

\* the printed lines of one format, in print order
LinesOf(f) == SelectSeq(out, LAMBDA l : l.fmt = f)

\* how many printed lines have a format of the set F
CountOf(F) == Cardinality({i \in DOMAIN out : out[i].fmt \in F})

Formats == [i \in DOMAIN out |-> out[i].fmt]

NoToken == "DEV_BEARER" \notin DOMAIN environ \/ environ["DEV_BEARER"] = <<>>

Exited == pc = "done"

\* the request failed below HTTP: refused, timeout, DNS
TransportFailed == exc.cls \in {"ConnectionError", "Timeout"}

Received == response # Unbound

\* the parsed body is a JSON object
Parsed == data.t = "obj"

SuccessField == DictGet(data, "success", JNull)

\* the substring test of the classification, written out on the characters
HasPlaceholder(s) == \E i \in 1..(Len(s) - 1) : s[i] = "$" /\ s[i + 1] = "{"

\* the expression of a record, the empty string when the field is absent
ExprString(r) ==
    IF "expression" \in DOMAIN r.v THEN r.v["expression"].v ELSE <<>>

Min(a, b) == IF a < b THEN a ELSE b

(***************************************************************************)
(* C1 -- config gate.  When DEV_BEARER is unset or empty no request is     *)
(* ever issued, the request step is never reached, the run ends with exit  *)
(* code 1 and the configuration diagnostic is the only line printed.       *)
(***************************************************************************)
C1_ConfigGate ==
    NoToken =>
        /\ requests = <<>>
        /\ response = Unbound
        /\ pc \in {"L8", "L9", "done"}
        /\ ~Exited => out = <<>>
        /\ Exited => exitCode = 1 /\ out = <<Line(FmtConfig, <<>>)>>

C1_Witness ==
    /\ Exited
    /\ "DEV_BEARER" \in DOMAIN environ
    /\ environ["DEV_BEARER"] = <<>>
    /\ exitCode = 1

(***************************************************************************)
(* C5 -- single request, no retries.  At most one request is issued in any *)
(* state; a run with a non-empty token has issued exactly one when it      *)
(* exits and in every state after the request step, failed or not.         *)
(***************************************************************************)
C5_SingleRequest ==
    /\ Len(requests) <= 1
    /\ (~NoToken /\ pc \notin {"L8", "L9", "L19", "L25"}) => Len(requests) = 1
    /\ (Exited /\ ~NoToken) => Len(requests) = 1
    /\ \A i \in DOMAIN requests :
          /\ requests[i].method = "GET"
          /\ requests[i].headers.Authorization = <<"Bearer ">> \o token.v

C5_Witness == Exited /\ TransportFailed /\ exitCode = 1 /\ Len(requests) = 1

(***************************************************************************)
(* C3 -- logic failure.  When the parsed body is an object whose success   *)
(* field is falsy or absent, the run prints the success=false diagnostic   *)
(* after the banner and nothing else, exits with code 1 through sys.exit   *)
(* (no except clause runs), and never reads total or rules.                *)
(***************************************************************************)
C3_LogicFailure ==
    (Parsed /\ ~Truthy(SuccessField)) =>
        /\ pc \in {"L29", "except", "done"}
        /\ total = Unbound /\ rules = Unbound
        /\ template_rules = <<>> /\ disabled_rules = <<>>
        /\ pc = "L29" => out = BannerLines
        /\ pc # "L29" =>
              /\ out = Append(BannerLines, Line(FmtLogic, <<>>))
              /\ exc = SystemExit(1)
        /\ Exited => exitCode = 1

C3_Witness ==
    /\ Exited
    /\ Parsed
    /\ "success" \in DOMAIN data.v
    /\ data.v["success"] = JBool(FALSE)
    /\ "data" \in DOMAIN data.v
    /\ exitCode = 1

(***************************************************************************)
(* C9 -- fatal-error propagation.  A run that ends in a failure of any     *)
(* class has printed exactly one ERROR line, as its last line, exits with  *)
(* code 1 and has not printed the closing banner; a run that exits 0 has   *)
(* raised nothing and printed no ERROR line.                               *)
(***************************************************************************)
C9_FatalErrors ==
    Exited =>
        /\ exitCode \in {0, 1}
        /\ (NoToken \/ exc # NoExc) => exitCode = 1
        /\ exitCode = 1 =>
              /\ CountOf(ErrorFormats) = 1
              /\ out[Len(out)].fmt \in ErrorFormats
              /\ CountOf({FmtComplete}) = 0
        /\ exitCode = 0 => CountOf(ErrorFormats) = 0 /\ exc = NoExc

\* a failure in the middle of the report: summary printed, then a KeyError
C9_Witness ==
    /\ Exited
    /\ exitCode = 1
    /\ exc.cls = "KeyError"
    /\ exc.msg = "name"
    /\ CountOf(SummaryFormats) = 4
    /\ CountOf({FmtPreviewName}) >= 1

(***************************************************************************)
(* C4 -- transport failure.  As stated, in what it says of the exit code   *)
(* and the report: a run whose GET fails at transport level, returns a     *)
(* non-2xx status, or returns a body that is not JSON, exits with code 1   *)
(* after an ERROR diagnostic, with no summary line and no closing banner.  *)
(* (The form of the diagnostic is part of the amended statement below.)    *)
(***************************************************************************)
Non2xx == Received /\ ~(200 <= response.status /\ response.status < 300)

NotJson == Received /\ response.body = Garbage

HttpError == Received /\ (400 <= response.status /\ response.status < 600)

ParseFailed == NotJson /\ ~HttpError

C6_AsStated ==
    (Exited /\ Parsed /\ Truthy(SuccessField)) => exitCode = 0

\* the payload can be summarised and reported without an exception
WellShaped(b) ==
    /\ "data" \in DOMAIN b.v
    /\ LET d == b.v["data"] IN
       /\ d.t = "obj"
       /\ "pagination" \in DOMAIN d.v
       /\ d.v["pagination"].t = "obj"
       /\ "total" \in DOMAIN d.v["pagination"].v
       /\ "rules" \in DOMAIN d.v
       /\ d.v["rules"].t = "list"
       /\ LET rs == d.v["rules"].v IN
          \A i \in 1..Len(rs) :
             /\ rs[i].t = "obj"
             /\ "expression" \in DOMAIN rs[i].v => rs[i].v["expression"].t = "str"
             /\ "enabled" \in DOMAIN rs[i].v
             /\ (i <= 5 \/ ~Truthy(rs[i].v["enabled"])) => "name" \in DOMAIN rs[i].v

(***************************************************************************)
(* C6, amended -- the exit code is 0 or 1, and it is 0 exactly when the    *)
(* token is set, a response with a status that is not 4xx/5xx arrives, its *)
(* body parses as a JSON object with a truthy success, and the payload is  *)
(* well shaped: data and pagination are objects, total and rules are       *)
(* present, rules is a list of objects whose expression is absent or a     *)
(* string, each with an enabled field, and each rule that is disabled or   *)
(* among the first five has a name.  Every other run exits with code 1.    *)
(***************************************************************************)
C6_ExitCodes ==
    Exited =>
        /\ exitCode \in {0, 1}
        /\ exitCode = 0 <=>
              /\ ~NoToken
              /\ Received
              /\ ~HttpError
              /\ response.body.t = "obj"
              /\ Truthy(DictGet(response.body, "success", JNull))
              /\ WellShaped(response.body)

\* success is true, yet a rule beyond the preview has no name and is disabled
C6_Witness ==
    /\ Exited
    /\ exitCode = 1
    /\ Parsed
    /\ SuccessField = JBool(TRUE)
    /\ rules # Unbound
    /\ rules.t = "list"
    /\ Len(rules.v) > 5
    /\ \A i \in 1..5 : rules.v[i] = RuleA
    /\ rules.v[6] = RuleE

(***************************************************************************)
(* C2 -- disabled rules are a non-fatal warning.  As stated: for a parsed  *)
(* response with success true, an integer total and a rules list whose     *)
(* records all have a name and a boolean enabled, with k >= 1 of them      *)
(* enabled = false, the run prints k as the disabled count, a warning      *)
(* block naming exactly those k rules in the order received, completes     *)
(* the report and exits with code 0.                                       *)
(***************************************************************************)
\* the rules list of the parsed payload, <<>> when there is none
ReceivedRules ==
    IF /\ Parsed
       /\ "data" \in DOMAIN data.v
       /\ data.v["data"].t = "obj"
       /\ "rules" \in DOMAIN data.v["data"].v
       /\ data.v["data"].v["rules"].t = "list"
    THEN data.v["data"].v["rules"].v
    ELSE <<>>

\* success true, integer total, every record with a name and a boolean enabled
C2_Shape ==
    /\ Parsed
    /\ SuccessField = JBool(TRUE)
    /\ "data" \in DOMAIN data.v
    /\ data.v["data"].t = "obj"
    /\ "pagination" \in DOMAIN data.v["data"].v
    /\ data.v["data"].v["pagination"].t = "obj"
    /\ "total" \in DOMAIN data.v["data"].v["pagination"].v
    /\ data.v["data"].v["pagination"].v["total"].t = "num"
    /\ "rules" \in DOMAIN data.v["data"].v
    /\ data.v["data"].v["rules"].t = "list"
    /\ \A i \in DOMAIN ReceivedRules :
          /\ ReceivedRules[i].t = "obj"
          /\ "name" \in DOMAIN ReceivedRules[i].v
          /\ "enabled" \in DOMAIN ReceivedRules[i].v
          /\ ReceivedRules[i].v["enabled"].t = "bool"

\* the records received with enabled = false, in order
FalseRules == SelectSeq(ReceivedRules, LAMBDA r : r.v["enabled"] = JBool(FALSE))

\* every expression is absent or a string
C2_Expressions ==
    \A i \in DOMAIN ReceivedRules :
        "expression" \in DOMAIN ReceivedRules[i].v
            => ReceivedRules[i].v["expression"].t = "str"

C2_Outcome ==
    /\ exitCode = 0
    /\ LinesOf(FmtDisabled) = <<Line(FmtDisabled, <<JNum(Len(FalseRules))>>)>>
    /\ Len(LinesOf(FmtWarning)) = 1
    /\ LinesOf(FmtWarningItem) =
          [i \in DOMAIN FalseRules |->
              Line(FmtWarningItem, <<FalseRules[i].v["name"], JBool(FALSE)>>)]
    /\ CountOf({FmtComplete}) = 1

C7_Preview ==
    /\ rules # Unbound =>
          /\ rules = response.body.v["data"].v["rules"]
          /\ rules = data.v["data"].v["rules"]
    /\ Len(LinesOf(FmtPreviewName)) <= Min(5, Len(ReceivedRules))
    /\ \A i \in DOMAIN LinesOf(FmtPreviewName) :
          /\ "name" \in DOMAIN ReceivedRules[i].v
          /\ LinesOf(FmtPreviewName)[i] =
                Line(FmtPreviewName, <<JNum(i), ReceivedRules[i].v["name"]>>)
    /\ (Exited /\ exitCode = 0) =>
          /\ Len(LinesOf(FmtPreviewName)) = Min(5, Len(ReceivedRules))
          /\ Len(LinesOf(FmtPreviewType)) = Min(5, Len(ReceivedRules))
          /\ \A i \in DOMAIN LinesOf(FmtPreviewType) :
                /\ "enabled" \in DOMAIN ReceivedRules[i].v
                /\ LinesOf(FmtPreviewType)[i].args[2] = ReceivedRules[i].v["enabled"]
                /\ LinesOf(FmtPreviewType)[i].args[3] =
                      DictGet(ReceivedRules[i], "severity", JStr(<<"N/A">>))

\* more than five rules, not all alike
C7_Witness ==
    /\ Exited
    /\ exitCode = 0
    /\ Len(ReceivedRules) > 5
    /\ ReceivedRules[1] = RuleB
    /\ ReceivedRules[2] = RuleA
    /\ ReceivedRules[6] = RuleC

(***************************************************************************)
(* C8 -- template classification.  Every printed type label is "Template"  *)
(* exactly when the expression of its rule contains "${" and "Executable"  *)
(* otherwise, a record without expression counting as the empty string;    *)
(* the printed template count is the number of rules of the whole list     *)
(* whose expression contains "${".                                         *)
(***************************************************************************)
C8_Classification ==
    /\ \A i \in DOMAIN LinesOf(FmtPreviewType) :
          LinesOf(FmtPreviewType)[i].args[1] =
              IF HasPlaceholder(ExprString(ReceivedRules[i]))
              THEN JStr(<<"Template">>) ELSE JStr(<<"Executable">>)
    /\ \A i \in DOMAIN LinesOf(FmtTemplates) :
          LinesOf(FmtTemplates)[i].args =
              <<JNum(Cardinality({j \in DOMAIN ReceivedRules :
                                     HasPlaceholder(ExprString(ReceivedRules[j]))}))>>

\* a template rule beyond the preview, a record without expression in it
C8_Witness ==
    /\ Exited
    /\ exitCode = 0
    /\ Len(ReceivedRules) > 5
    /\ ReceivedRules[1] = RuleB
    /\ ReceivedRules[2] = RuleA
    /\ ReceivedRules[3] = RuleB
    /\ ReceivedRules[6] = RuleA
    /\ LinesOf(FmtTemplates)[1].args[1].v >= 2

(***************************************************************************)
(* C10 -- report ordering.  A run that exits 0 has printed, in this order  *)
(* and once each: the opening banner, the four summary lines, the warning  *)
(* block, the numbered preview, the closing banner and the status block;   *)
(* the warning block is there exactly when the printed disabled count is   *)
(* above 0.  The banner is printed before the request is issued: it heads  *)
(* the output of every run that issued one, and a run stopped by the       *)
(* config gate never prints it.                                            *)
(***************************************************************************)
\* the disabled count as printed
PrintedDisabled == LinesOf(FmtDisabled)[1].args[1].v

ExpectedFormats ==
    <<"====", "Rules Hub API Verification", "====", "">>
    \o <<FmtTotal, FmtFetched, FmtTemplates, FmtDisabled, "">>
    \o (IF PrintedDisabled > 0
        THEN <<FmtWarning>> \o [i \in 1..PrintedDisabled |-> FmtWarningItem] \o <<"">>
        ELSE <<>>)
    \o <<FmtPreview>>
    \o [i \in 1..(2 * Min(5, Len(ReceivedRules))) |->
           IF i % 2 = 1 THEN FmtPreviewName ELSE FmtPreviewType]
    \o ClosingFormats

C10_ReportOrder ==
    /\ (Exited /\ exitCode = 0) =>
          /\ Len(LinesOf(FmtDisabled)) = 1
          /\ Formats = ExpectedFormats
          /\ (CountOf({FmtWarning}) = 1) <=> (PrintedDisabled > 0)
    /\ requests # <<>> => SubSeq(out, 1, 4) = BannerLines
    /\ (Exited /\ NoToken) => CountOf({"Rules Hub API Verification"}) = 0

\* a complete report with a warning block of two rules
C10_Witness ==
    /\ Exited
    /\ exitCode = 0
    /\ CountOf({FmtWarning}) = 1
    /\ CountOf({FmtWarningItem}) = 2
    /\ CountOf({FmtPreviewName}) = 5
====
